---------------------------- MODULE Spec2Model ----------------------------
(***************************************************************************)
(* RunnableAssign (Merge-Assign) of langchain/schema/runnable/passthrough: *)
(* invoke / ainvoke as pure functions, and transform / atransform as a     *)
(* state machine of the caller, the generator, the background task that    *)
(* prefetches the first map chunk, the two-branch tee and the map stream.  *)
(***************************************************************************)
EXTENDS Integers, Sequences, FiniteSets, TLC

\* ------------------------------------------------------------- bounds
\* Longest input chunk sequence handed to transform / atransform.
MaxLen == 3

\* ------------------------------------------------------------- values
EmptyKV == [k \in {} |-> 0]

\* A Structured Record (a dict): keys to integer values.
Dict(f) == [tag |-> "dict", kv |-> f]
\* An item that is not a Structured Record (a bare integer).
NonRecord == [tag |-> "int", kv |-> EmptyKV]
\* Python's None, the default of next(map_output, None).
None == [tag |-> "none", kv |-> EmptyKV]
\* End of an iterator (StopIteration), as seen by the consumer of a tee branch.
EndOfSeq == [tag |-> "end", kv |-> EmptyKV]

IsDict(item) == item.tag = "dict"

NoErr == [kind |-> "none", task |-> ""]
TypeMismatch == [kind |-> "TypeMismatch", task |-> ""]
UnitFailure(k) == [kind |-> "UnitFailure", task |-> k]

\* The record the examples use, {"a": 1, "b": 2}, and its sub-records.
FullRecord == [k \in {"a", "b"} |-> IF k = "a" THEN 1 ELSE 2]
Restrict(f, S) == [k \in S |-> f[k]]
Records == {Dict(Restrict(FullRecord, S)) : S \in SUBSET DOMAIN FullRecord}
Items == Records \cup {NonRecord}
Inputs == UNION {[1..n -> Items] : n \in 0..MaxLen}

\* The Named Sub-Task Mapping of the examples, {"b": task_returns_99,
\* "c": task_returns_sum_of_a_b}, and its sub-mappings (the empty one included).
FullMapper == [k \in {"b", "c"} |->
                 IF k = "b" THEN "task_returns_99" ELSE "task_returns_sum_of_a_b"]
Mappers == {Restrict(FullMapper, S) : S \in SUBSET DOMAIN FullMapper}

\* The same mapping with a sub-task under "b" that streams its result in two
\* chunks, and its sub-mappings that hold that sub-task.
StreamMapper == [k \in {"b", "c"} |->
                   IF k = "b" THEN "task_streams_a_then_b"
                   ELSE "task_returns_sum_of_a_b"]
StreamMappers == {Restrict(StreamMapper, S) : S \in {{"b"}, {"b", "c"}}}

\* One sub-task applied to a record: [ok, val].  The sum fails on a missing
\* key; the streaming sub-task's single-shot result is its chunks added up.
TaskResult(t, x) ==
    IF t = "task_returns_99" THEN [ok |-> TRUE, val |-> 99]
    ELSE IF {"a", "b"} \subseteq DOMAIN x
         THEN [ok |-> TRUE, val |-> x["a"] + x["b"]]
         ELSE [ok |-> FALSE, val |-> 0]

\* One sub-task driven as a stream on a record: the chunks it yields, and
\* whether it fails after them.  A sub-task that only has a single-shot result
\* yields it whole; task_streams_a_then_b yields x["a"], then x["b"].
TaskStream(t, x) ==
    IF t = "task_streams_a_then_b"
    THEN [chunks |-> (IF "a" \in DOMAIN x THEN <<x["a"]>> ELSE <<>>)
                     \o (IF {"a", "b"} \subseteq DOMAIN x THEN <<x["b"]>>
                         ELSE <<>>),
          fails |-> ~({"a", "b"} \subseteq DOMAIN x)]
    ELSE [chunks |-> IF TaskResult(t, x).ok THEN <<TaskResult(t, x).val>>
                     ELSE <<>>,
          fails |-> ~TaskResult(t, x).ok]

\* {**a, **b}: the shallow union, b's value wins on a shared key.
Merge(a, b) ==
    [k \in DOMAIN a \cup DOMAIN b |-> IF k \in DOMAIN b THEN b[k] ELSE a[k]]

\* -------------------------------------------- Parallel Map, single shot
FailingTasks(m, x) == {k \in DOMAIN m : ~TaskResult(m[k], x).ok}

\* The outcome of a call or of a future: a value, or the failure raised.
Returned(v) == [state |-> "returned", value |-> v, err |-> NoErr]
Raised(e) == [state |-> "raised", value |-> None, err |-> e]
NotCalled == [state |-> "notcalled", value |-> None, err |-> NoErr]

\* self.mapper.invoke(input): {name: result} of every sub-task, or, when some
\* sub-task fails, the failure of the failing sub-task k (fail-fast: no record).
mapper_invoke(m, x, k) ==
    IF FailingTasks(m, x) # {} THEN Raised(UnitFailure(k))
    ELSE Returned(Dict([j \in DOMAIN m |-> TaskResult(m[j], x).val]))

\* ------------------------------------------------ RunnableAssign.invoke
\* Faulty variant of invoke: {**self.mapper.invoke(input), **input}, the input's value
\* winning on a shared key.
invoke_InputWins(unpacked, r) ==
    IF r.state = "raised" THEN r
    ELSE Returned(Dict(Merge(r.value.kv, unpacked.kv)))

\* Faulty variant of invoke: a failure of the map is caught and the input returned.
invoke_SwallowsFailure(unpacked, r) ==
    IF r.state = "raised" THEN Returned(unpacked)
    ELSE Returned(Dict(Merge(unpacked.kv, r.value.kv)))

\* invoke(input), after the assert: {**input, **self.mapper.invoke(input)}.
\* The items of **input are placed in the dict display first (unpacked); then
\* the map is called, and its outcome r completes the display: its record is
\* merged over the unpacked items, its failure propagates out of the display.
invoke(unpacked, r) ==
    IF r.state = "raised" THEN r
    ELSE Returned(Dict(Merge(unpacked.kv, r.value.kv)))

\* ainvoke(input), after the assert: {**input, **await
\* self.mapper.ainvoke(input)}, the same with the map awaited.
ainvoke(unpacked, r) ==
    IF r.state = "raised" THEN r
    ELSE Returned(Dict(Merge(unpacked.kv, r.value.kv)))

\* ------------------------------------------- RunnableAssign.stream
\* Faulty variant of stream: transform(iter(input)), which iterates the record
\* itself and hands transform its keys, one bare value per key.
stream_IterInput(x) == [i \in 1..Cardinality(DOMAIN x.kv) |-> NonRecord]

\* stream(input) is transform(iter([input])): the chunk sequence handed on.
stream(x) == <<x>>

\* astream(input) is atransform(input_aiter()), input_aiter yielding input once.
astream(x) == <<x>>

\* ---------------------------------------------- RunnablePassthrough
identity(x) == x

aidentity(x) == x

\* Faulty variant of RunnablePassthrough_transform: the chunks are accumulated and
\* the outcome is yielded once, at the end.
RunnablePassthrough_transform_Accumulates(chunks) ==
    IF chunks = <<>> THEN <<>> ELSE <<chunks[Len(chunks)]>>

\* transform / atransform: identity is the transformer, applied to the input
\* iterator itself; what it returns is iterated and yielded chunk by chunk.
RunnablePassthrough_transform(chunks) == identity(chunks)

\* ------------------------------------------------------------- state
VARIABLES
    call,       \* how RunnableAssign was called: transform(chunks) or stream(x)
    input,      \* the input chunk sequence handed to transform / atransform
    mapper,     \* self.mapper.steps: key -> sub-task
    mode,       \* "sync" (transform, threads) or "async" (atransform, tasks)
    srcPos,     \* how many items the tee has pulled from the shared source
    pulls,      \* the source indices pulled, in the order pulled
    delivered,  \* what each tee branch has handed to its consumer so far
    buffers,    \* the tee's buffer of each branch
    lock,       \* the tee's lock: "free" or the branch holding it
    teePc,      \* each branch's place inside a tee pull
    teeItem,    \* the item a branch holds between its pull and its fan-out
    gen,        \* the place of the transform generator
    caller,     \* "idle", "waiting" (inside next), "abandoned", "finished"
    out,        \* the chunks yielded to the caller, each with its branch
    err,        \* the failure the stream call ended with
    first_map_chunk_future, \* the background next(map_output, None):
                \* "notcalled", "running", "returned", "raised", "cancelled"
    map_output, \* the map stream: phase, accumulated input, tasks left and
                \* chunks sent per task, chunks produced, next() calls made
    mapFailed,  \* the failure raised inside the map stream, if any
    invRes,     \* the outcome of invoke / ainvoke on the single input
    invoke_pc,  \* the place of invoke / ainvoke: "idle", "waiting" (invoke,
                \* inside the map), "awaiting" (ainvoke, the map), "resuming"
                \* (the map has its outcome, the call has not ended), "done"
    invoke_map, \* the outcome of self.mapper.invoke / ainvoke
    invoke_read,     \* the record as the map's sub-tasks read it
    invoke_result_obj, \* the object returned: "none", "display" (the dict
                     \* the display built), "input" (the caller's record)
    invoke_unpacked, \* the items of **input already in the dict display
    invoke_input,    \* the record object handed to invoke / ainvoke, as it is
                     \* now (other threads and tasks hold it too)
    passthrough_pc,  \* RunnablePassthrough.transform over input: its place
    passthrough_out, \* the chunks it has yielded
    passthrough_res, \* the outcome of RunnablePassthrough.invoke / ainvoke
    evaluator_chain, \* the outcome of StringRunEvaluatorChain's construction
    run,             \* the Run handed to the evaluator chain
    example,         \* the Example handed with it, if any
    eval_pc,         \* the place of _call / _acall
    run_mapped,      \* the outcome of self.run_mapper(run)
    evaluate_strings_inputs, \* what _prepare_input returned
    evaluator_calls, \* the keyword arguments of each evaluate_strings call
    feedback         \* the outcome of _call / _acall

vars == <<evaluator_chain, run, example, eval_pc, run_mapped,
          evaluate_strings_inputs, evaluator_calls, feedback,
          call, passthrough_pc, passthrough_out, passthrough_res, input, mapper, mode, srcPos, pulls, delivered, buffers, lock, teePc, teeItem,
          gen, caller, out, err, first_map_chunk_future, map_output,
          mapFailed, invRes, invoke_pc, invoke_unpacked, invoke_input,
          invoke_map, invoke_read, invoke_result_obj>>

Branches == {"for_passthrough", "for_map"}

\* No evaluator chain has been built.
NoRun == [run_type |-> "", inputs |-> None, outputs |-> None, error |-> ""]
NoExample == [supplied |-> FALSE, outputs |-> None]
EvalAbsent ==
    /\ evaluator_chain = NotCalled
    /\ run = NoRun
    /\ example = NoExample
    /\ eval_pc = "no_chain"
    /\ run_mapped = NotCalled
    /\ evaluate_strings_inputs = None
    /\ evaluator_calls = <<>>
    /\ feedback = NotCalled

\* A RunnableAssign over one of the mappings has been called and its generator
\* has not run yet.
AssignCalled(mappers) ==
    /\ mapper \in mappers
    /\ mode \in {"sync", "async"}
    /\ \/ /\ call = [op |-> "transform", x |-> None]
          /\ input \in Inputs
       \/ \E x \in Items :
            /\ call = [op |-> "stream", x |-> x]
            /\ input = IF mode = "sync" THEN stream(x) ELSE astream(x)

AssignConstructed ==
    /\ srcPos = 0
    /\ pulls = <<>>
    /\ delivered = [b \in Branches |-> <<>>]
    /\ buffers = [b \in Branches |-> <<>>]
    /\ lock = "free"
    /\ teePc = [b \in Branches |-> "idle"]
    /\ teeItem = [b \in Branches |-> None]
    /\ gen = "created"
    /\ caller = "idle"
    /\ out = <<>>
    /\ err = NoErr
    /\ first_map_chunk_future = NotCalled
    /\ map_output = [phase |-> "reading", acc |-> EmptyKV, seen |-> FALSE,
                     left |-> DOMAIN mapper,
                     sent |-> [k \in DOMAIN mapper |-> 0],
                     produced |-> <<>>, requests |-> 0]
    /\ mapFailed = NoErr
    /\ invRes = NotCalled
    /\ invoke_pc = "idle"
    /\ invoke_map = NotCalled
    /\ invoke_read = None
    /\ invoke_result_obj = "none"
    /\ invoke_unpacked = None
    /\ invoke_input = IF Len(input) = 1 THEN input[1] ELSE None
    /\ passthrough_pc = "created"
    /\ passthrough_out = <<>>
    /\ passthrough_res = [state |-> "notcalled", arg |-> None, value |-> None]

InitOf(mappers) ==
    /\ AssignCalled(mappers)
    /\ AssignConstructed
    /\ EvalAbsent

Init == InitOf(Mappers)

\* The same calls on a mapping with a streaming sub-task.
StreamInit == InitOf(StreamMappers)

cfgVars == <<call, input, mapper, mode>>
idVars == <<passthrough_pc, passthrough_out, passthrough_res>>
evVars == <<evaluator_chain, run, example, eval_pc, run_mapped,
            evaluate_strings_inputs, evaluator_calls, feedback>>
teeVars == <<srcPos, pulls, delivered, buffers, lock, teePc, teeItem>>
genVars == <<gen, caller, out, err>>
mapVars == <<first_map_chunk_future, map_output, mapFailed>>
invVars == <<invRes, invoke_pc, invoke_unpacked, invoke_input,
             invoke_map, invoke_read, invoke_result_obj>>

\* mapper_keys = set(self.mapper.steps.keys())
mapper_keys == DOMAIN mapper

\* The places where the generator is suspended, waiting for the caller's next pull.
Suspended == {"created", "at_yield_pt", "at_yield_first", "at_yield_map"}

\* ------------------------------------------------- generator outcomes
\* yield chunk: the chunk reaches the caller, whose pull returns.
Yield(src, chunk, at) ==
    /\ out' = Append(out, [src |-> src, chunk |-> chunk])
    /\ gen' = at
    /\ caller' = "idle"
    /\ err' = err

\* Faulty variant of Raise: the async path takes a failure for the end of the
\* stream.
Raise_AsyncReturns(e) ==
    /\ out' = out
    /\ IF mode = "async"
       THEN gen' = "done" /\ caller' = "finished" /\ err' = err
       ELSE /\ err' = e
            /\ IF first_map_chunk_future.state = "running"
               THEN gen' = "exiting" /\ caller' = caller
               ELSE gen' = "failed" /\ caller' = "finished"

\* The generator raises e.  Leaving the executor's with-block (sync) waits for
\* the submitted future; the async path has no such block.
Raise(e) ==
    /\ err' = e
    /\ out' = out
    /\ IF mode = "sync" /\ first_map_chunk_future.state = "running"
       THEN gen' = "exiting" /\ caller' = caller
       ELSE gen' = "failed" /\ caller' = "finished"

\* The generator returns: the caller's pull ends with end-of-stream.
Return ==
    /\ gen' = "done"
    /\ caller' = "finished"
    /\ UNCHANGED <<out, err>>

\* ------------------------------------------------- passthrough branch
\* Faulty variant of filtered: the mapper's keys are not removed.
filtered_KeepAll(chunk, keys) == chunk

\* AddableDict({k: v for k, v in chunk.items() if k not in mapper_keys})
filtered(chunk, keys) == Dict(Restrict(chunk.kv, DOMAIN chunk.kv \ keys))

\* if filtered: a dict is truthy when it is not empty.
Truthy(d) == DOMAIN d.kv # {}

\* Faulty variant of PtOnItem: no assert, an item that is not a dict is skipped.
PtOnItem_NoAssert(item) ==
    IF item = EndOfSeq
    THEN gen' = "await_first" /\ UNCHANGED <<caller, out, err>>
    ELSE IF IsDict(item) /\ Truthy(filtered(item, mapper_keys))
    THEN Yield("passthrough", filtered(item, mapper_keys), "at_yield_pt")
    ELSE UNCHANGED genVars

\* The body of "for chunk in for_passthrough", and the loop's end.
PtOnItem(item) ==
    IF item = EndOfSeq
    THEN gen' = "await_first" /\ UNCHANGED <<caller, out, err>>
    ELSE IF ~IsDict(item)
    THEN Raise(TypeMismatch)
    ELSE IF Truthy(filtered(item, mapper_keys))
    THEN Yield("passthrough", filtered(item, mapper_keys), "at_yield_pt")
    ELSE UNCHANGED genVars

\* ------------------------------------------------------- map stream
\* Faulty variant of MapDriving: the prefetch is not run in the background: it only
\* advances while the caller is inside a pull.
MapDriving_OnCallerOnly ==
    \/ first_map_chunk_future.state = "running" /\ caller = "waiting"
    \/ gen = "map_next"

\* Faulty variant of MapDriving: the submitted call finds no worker to run it.
MapDriving_NoWorker == gen = "map_next"

\* Who runs the map stream's next: the background future while it runs, the
\* caller's thread in "for chunk in map_output".
MapDriving == first_map_chunk_future.state = "running" \/ gen = "map_next"

\* What one next(map_output) ends with, handed to whoever called it.
MapChunk(chunk) ==
    IF first_map_chunk_future.state = "running"
    THEN first_map_chunk_future' = Returned(chunk) /\ UNCHANGED genVars
    ELSE Yield("map", chunk, "at_yield_map")
         /\ UNCHANGED first_map_chunk_future

MapEnd ==
    IF first_map_chunk_future.state = "running"
    THEN first_map_chunk_future' = Returned(None) /\ UNCHANGED genVars
    ELSE Return /\ UNCHANGED first_map_chunk_future

MapRaise(e) ==
    /\ mapFailed' = e
    /\ IF first_map_chunk_future.state = "running"
       THEN first_map_chunk_future' = Raised(e) /\ UNCHANGED genVars
       ELSE Raise(e) /\ UNCHANGED first_map_chunk_future

\* The map stream reads its branch of the tee to the end, merging the chunks
\* into the input its sub-tasks run on.
MapOnItem(item) ==
    IF item = EndOfSeq
    THEN IF map_output.seen /\ map_output.left # {}
         THEN /\ map_output' = [map_output EXCEPT !.phase = "emitting"]
              /\ UNCHANGED <<first_map_chunk_future, mapFailed>>
              /\ UNCHANGED genVars
         ELSE /\ map_output' = [map_output EXCEPT !.phase = "ended"]
              /\ mapFailed' = mapFailed
              /\ MapEnd
    ELSE IF ~IsDict(item)
    THEN /\ map_output' = [map_output EXCEPT !.phase = "failed"]
         /\ MapRaise(TypeMismatch)
    ELSE /\ map_output' = [map_output EXCEPT
                             !.acc = Merge(map_output.acc, item.kv),
                             !.seen = TRUE]
         /\ UNCHANGED <<first_map_chunk_future, mapFailed>>
         /\ UNCHANGED genVars

\* -------------------------------------------------------------- tee
Active(b) ==
    IF b = "for_passthrough" THEN gen = "pt_next"
    ELSE MapDriving /\ map_output.phase = "reading"

\* Faulty variant of OnItem: the tee is made over the filtered chunks, so that
\* the map branch is handed records without the mapper's keys.
OnItem_MapGetsFiltered(b, item) ==
    /\ delivered' = [delivered EXCEPT ![b] =
                       Append(@, IF b = "for_map" /\ IsDict(item)
                                 THEN filtered(item, mapper_keys) ELSE item)]
    /\ IF b = "for_passthrough"
       THEN PtOnItem(item) /\ UNCHANGED mapVars
       ELSE MapOnItem(IF IsDict(item) THEN filtered(item, mapper_keys)
                      ELSE item)

\* One item of its branch reaches a consumer: the passthrough loop's body, or
\* the map stream reading its input.
OnItem(b, item) ==
    /\ delivered' = [delivered EXCEPT ![b] = Append(@, item)]
    /\ IF b = "for_passthrough"
       THEN PtOnItem(item) /\ UNCHANGED mapVars
       ELSE MapOnItem(item)

\* Faulty variant of LockFree: the lock excludes nobody.
LockFree_Always == TRUE

\* The lock can be taken.
LockFree == lock = "free"

\* A pull of branch b: a buffered item left by the sibling is returned,
\* otherwise the branch goes for the lock.
TeeNext(b) ==
    /\ Active(b)
    /\ teePc[b] = "idle"
    /\ IF buffers[b] # <<>>
       THEN /\ buffers' = [buffers EXCEPT ![b] = Tail(buffers[b])]
            /\ OnItem(b, Head(buffers[b]))
            /\ UNCHANGED <<srcPos, pulls, lock, teePc, teeItem>>
       ELSE /\ teePc' = [teePc EXCEPT ![b] = "acquire"]
            /\ UNCHANGED <<srcPos, pulls, delivered, buffers, lock, teeItem>>
            /\ UNCHANGED <<genVars, mapVars>>
    /\ UNCHANGED <<cfgVars, idVars, evVars, invVars>>

TeeAcquire(b) ==
    /\ Active(b)
    /\ teePc[b] = "acquire"
    /\ LockFree
    /\ lock' = b
    /\ teePc' = [teePc EXCEPT ![b] = "locked"]
    /\ UNCHANGED <<srcPos, pulls, delivered, buffers, teeItem>>
    /\ UNCHANGED <<cfgVars, idVars, evVars, genVars, mapVars, invVars>>

\* Under the lock: the sibling may have filled the buffer meanwhile; if not, one
\* item is pulled from the shared source, or the source is found exhausted.
TeePullSource(b) ==
    /\ Active(b)
    /\ teePc[b] = "locked"
    /\ IF buffers[b] # <<>>
       THEN /\ lock' = "free"
            /\ teePc' = [teePc EXCEPT ![b] = "idle"]
            /\ UNCHANGED <<srcPos, pulls, delivered, buffers, teeItem>>
            /\ UNCHANGED <<genVars, mapVars>>
       ELSE IF srcPos >= Len(input)
       THEN /\ lock' = "free"
            /\ teePc' = [teePc EXCEPT ![b] = "idle"]
            /\ UNCHANGED <<srcPos, pulls, buffers, teeItem>>
            /\ OnItem(b, EndOfSeq)
       ELSE /\ srcPos' = srcPos + 1
            /\ pulls' = Append(pulls, srcPos + 1)
            /\ teeItem' = [teeItem EXCEPT ![b] = input[srcPos + 1]]
            /\ teePc' = [teePc EXCEPT ![b] = "fanout"]
            /\ UNCHANGED <<delivered, buffers, lock>>
            /\ UNCHANGED <<genVars, mapVars>>
    /\ UNCHANGED <<cfgVars, idVars, evVars, invVars>>

\* Faulty variant of TeeFanout: the pulled item goes to the puller's own buffer only.
TeeFanout_OwnOnly(b) ==
    /\ Active(b)
    /\ teePc[b] = "fanout"
    /\ buffers' = [buffers EXCEPT ![b] = Append(@, teeItem[b])]
    /\ teeItem' = [teeItem EXCEPT ![b] = None]
    /\ lock' = "free"
    /\ teePc' = [teePc EXCEPT ![b] = "idle"]
    /\ UNCHANGED <<srcPos, pulls, delivered>>
    /\ UNCHANGED <<cfgVars, idVars, evVars, genVars, mapVars, invVars>>

\* Still under the lock: a copy of the pulled item goes to every branch's buffer.
TeeFanout(b) ==
    /\ Active(b)
    /\ teePc[b] = "fanout"
    /\ buffers' = [p \in Branches |-> Append(buffers[p], teeItem[b])]
    /\ teeItem' = [teeItem EXCEPT ![b] = None]
    /\ lock' = "free"
    /\ teePc' = [teePc EXCEPT ![b] = "idle"]
    /\ UNCHANGED <<srcPos, pulls, delivered>>
    /\ UNCHANGED <<cfgVars, idVars, evVars, genVars, mapVars, invVars>>


\* ------------------------------------------------- map stream, emitting
\* Each sub-task is driven as a stream on the whole input and every chunk of it
\* is emitted as the one-key record {task_name: chunk}; the first one ready
\* wins.  A sub-task leaves when its stream has ended.
MapEmit ==
    /\ MapDriving
    /\ map_output.phase \in {"emitting", "ended"}
    /\ IF map_output.phase = "ended" \/ map_output.left = {}
       THEN /\ map_output' = [map_output EXCEPT !.phase = "ended"]
            /\ mapFailed' = mapFailed
            /\ MapEnd
       ELSE \E k \in map_output.left :
              LET s == TaskStream(mapper[k], map_output.acc)
                  n == map_output.sent[k]
              IN
              IF n < Len(s.chunks)
              THEN /\ map_output' =
                        [map_output EXCEPT
                           !.sent[k] = n + 1,
                           !.left = IF n + 1 = Len(s.chunks) /\ ~s.fails
                                    THEN @ \ {k} ELSE @,
                           !.produced =
                              Append(@, Dict([j \in {k} |-> s.chunks[n + 1]]))]
                   /\ mapFailed' = mapFailed
                   /\ MapChunk(Dict([j \in {k} |-> s.chunks[n + 1]]))
              ELSE /\ map_output' = [map_output EXCEPT !.phase = "failed"]
                   /\ MapRaise(UnitFailure(k))
    /\ UNCHANGED <<cfgVars, idVars, evVars, teeVars, invVars>>

\* ------------------------------------------------ caller and generator
\* Faulty variant of Resume: after the prefetched chunk the generator yields
\* the future's result again.
Resume_RepeatsFirst(at) ==
    CASE at = "created" -> "start"
      [] at = "at_yield_pt" -> "pt_next"
      [] at = "at_yield_first" -> "await_first"
      [] at = "at_yield_map" -> "map_next"

\* Where a suspended generator goes on when the caller pulls again.
Resume(at) ==
    CASE at = "created" -> "start"
      [] at = "at_yield_pt" -> "pt_next"
      [] at = "at_yield_first" -> "map_next"
      [] at = "at_yield_map" -> "map_next"

\* The caller asks for the next chunk.
CallerPull ==
    /\ caller = "idle"
    /\ gen \in Suspended
    /\ caller' = "waiting"
    /\ gen' = Resume(gen)
    /\ map_output' = IF Resume(gen) = "map_next"
                     THEN [map_output EXCEPT !.requests = @ + 1]
                     ELSE map_output
    /\ UNCHANGED <<out, err, first_map_chunk_future, mapFailed>>
    /\ UNCHANGED <<cfgVars, idVars, evVars, teeVars, invVars>>

\* Faulty variant of GenStart: nothing is submitted before the passthrough loop.
GenStart_NoPrefetch ==
    /\ gen = "start"
    /\ gen' = "pt_next"
    /\ UNCHANGED <<caller, out, err, mapVars>>
    /\ UNCHANGED <<cfgVars, idVars, evVars, teeVars, invVars>>

\* The tee and the map stream are created and next(map_output, None) is
\* submitted to the executor (sync) or scheduled as a task (async): the one
\* request made of the map stream before the passthrough loop.
GenStart ==
    /\ gen = "start"
    /\ first_map_chunk_future' = [NotCalled EXCEPT !.state = "running"]
    /\ map_output' = [map_output EXCEPT !.requests = @ + 1]
    /\ gen' = "pt_next"
    /\ UNCHANGED <<caller, out, err, mapFailed>>
    /\ UNCHANGED <<cfgVars, idVars, evVars, teeVars, invVars>>

\* Faulty variant of GenYieldFirst: the first map chunk is yielded as soon as the
\* future has it, also from inside the passthrough loop.
GenYieldFirst_AsReady ==
    /\ gen \in {"await_first", "pt_next"}
    /\ teePc["for_passthrough"] = "idle"
    /\ first_map_chunk_future.state # "running"
    /\ gen = "pt_next" => \A i \in 1..Len(out) : out[i].src # "map"
    /\ IF first_map_chunk_future.state = "raised"
       THEN Raise(first_map_chunk_future.err)
       ELSE Yield("map", first_map_chunk_future.value,
                  IF gen = "pt_next" THEN "at_yield_pt" ELSE "at_yield_first")
    /\ UNCHANGED <<cfgVars, idVars, evVars, teeVars, mapVars, invVars>>

\* Faulty variant of GenYieldFirst: a failed prefetch is taken for an exhausted map
\* stream and the generator returns.
GenYieldFirst_SwallowsFailure ==
    /\ gen = "await_first"
    /\ first_map_chunk_future.state # "running"
    /\ IF first_map_chunk_future.state = "raised"
       THEN Return
       ELSE Yield("map", first_map_chunk_future.value, "at_yield_first")
    /\ UNCHANGED <<cfgVars, idVars, evVars, teeVars, mapVars, invVars>>

\* Faulty variant of GenYieldFirst: the prefetched chunk is awaited but not
\* yielded; the generator goes on with the rest of the map stream.
GenYieldFirst_DropsPrefetched ==
    /\ gen = "await_first"
    /\ first_map_chunk_future.state # "running"
    /\ IF first_map_chunk_future.state = "raised"
       THEN Raise(first_map_chunk_future.err) /\ map_output' = map_output
       ELSE /\ gen' = "map_next"
            /\ map_output' = [map_output EXCEPT !.requests = @ + 1]
            /\ UNCHANGED <<caller, out, err>>
    /\ UNCHANGED <<first_map_chunk_future, mapFailed>>
    /\ UNCHANGED <<cfgVars, idVars, evVars, teeVars, invVars>>

\* yield first_map_chunk_future.result() / yield await first_map_chunk_task
GenYieldFirst ==
    /\ gen = "await_first"
    /\ first_map_chunk_future.state # "running"
    /\ IF first_map_chunk_future.state = "raised"
       THEN Raise(first_map_chunk_future.err)
       ELSE Yield("map", first_map_chunk_future.value, "at_yield_first")
    /\ UNCHANGED <<cfgVars, idVars, evVars, teeVars, mapVars, invVars>>

\* The executor's with-block is left once the submitted future has finished.
GenExit ==
    /\ gen = "exiting"
    /\ first_map_chunk_future.state # "running"
    /\ gen' = IF caller = "abandoned" THEN "closed" ELSE "failed"
    /\ caller' = IF caller = "abandoned" THEN "abandoned" ELSE "finished"
    /\ UNCHANGED <<out, err>>
    /\ UNCHANGED <<cfgVars, idVars, evVars, teeVars, mapVars, invVars>>

\* The caller stops pulling.
Abandon ==
    /\ caller = "idle"
    /\ gen \in Suspended
    /\ caller' = "abandoned"
    /\ UNCHANGED <<gen, out, err>>
    /\ UNCHANGED <<cfgVars, idVars, evVars, teeVars, mapVars, invVars>>

\* The abandoned generator is closed: GeneratorExit at its yield.  A generator
\* that never ran has no executor; the sync one leaves the with-block.
Close ==
    /\ caller = "abandoned"
    /\ gen \in Suspended
    /\ gen' = IF gen # "created" /\ mode = "sync"
                 /\ first_map_chunk_future.state = "running"
              THEN "exiting" ELSE "closed"
    /\ UNCHANGED <<caller, out, err>>
    /\ UNCHANGED <<cfgVars, idVars, evVars, teeVars, mapVars, invVars>>

\* The caller's coroutine has ended (it stopped pulling, or the call failed)
\* while the asyncio task of the prefetch is still pending: atransform neither
\* awaits nor cancels it, and the event loop cancels it when it shuts down.
\* The cancellation lands where the task is suspended: waiting for the tee's
\* lock, waiting for the source under the lock (the lock is released on the way
\* out), or waiting for the sub-tasks.
Cancelled == [state |-> "cancelled", value |-> None, err |-> NoErr]
CancelTask ==
    /\ mode = "async"
    /\ caller \in {"abandoned", "finished"}
    /\ first_map_chunk_future.state = "running"
    /\ \/ teePc["for_map"] \in {"acquire", "locked"}
       \/ teePc["for_map"] = "idle" /\ map_output.phase = "emitting"
    /\ first_map_chunk_future' = Cancelled
    /\ map_output' = [map_output EXCEPT !.phase = "cancelled"]
    /\ lock' = IF lock = "for_map" THEN "free" ELSE lock
    /\ teePc' = [teePc EXCEPT !["for_map"] = "idle"]
    /\ UNCHANGED <<srcPos, pulls, delivered, buffers, teeItem, mapFailed>>
    /\ UNCHANGED <<cfgVars, idVars, evVars, genVars, invVars>>

\* invoke(x), up to the wait inside self.mapper.invoke: the assert, then
\* **input is unpacked into the dict display and self.mapper.invoke(input) is
\* called, which hands the sub-tasks to the executor's threads and waits for
\* them.
InvokeStart ==
    /\ mode = "sync"
    /\ invoke_pc = "idle"
    /\ Len(input) = 1
    /\ IF ~IsDict(invoke_input)
       THEN /\ invRes' = Raised(TypeMismatch)
            /\ invoke_pc' = "done"
            /\ UNCHANGED invoke_unpacked
       ELSE /\ invoke_unpacked' = invoke_input
            /\ invoke_pc' = "waiting"
            /\ UNCHANGED invRes
    /\ UNCHANGED <<invoke_input, invoke_map, invoke_read, invoke_result_obj>>
    /\ UNCHANGED <<cfgVars, idVars, evVars, teeVars, genVars, mapVars>>

\* ainvoke(x), up to its await: the assert, then **input is unpacked into the
\* dict display and self.mapper.ainvoke(input) is awaited, which hands control
\* to the event loop before any sub-task has read the input.
AinvokeStart ==
    /\ mode = "async"
    /\ invoke_pc = "idle"
    /\ Len(input) = 1
    /\ IF ~IsDict(invoke_input)
       THEN /\ invRes' = Raised(TypeMismatch)
            /\ invoke_pc' = "done"
            /\ UNCHANGED invoke_unpacked
       ELSE /\ invoke_unpacked' = invoke_input
            /\ invoke_pc' = "awaiting"
            /\ UNCHANGED invRes
    /\ UNCHANGED <<invoke_input, invoke_map, invoke_read, invoke_result_obj>>
    /\ UNCHANGED <<cfgVars, idVars, evVars, teeVars, genVars, mapVars>>

\* self.mapper.invoke(input) / ainvoke(input) while the call waits for it: the
\* sub-tasks run on the record as it is now, and the map has its outcome (its
\* record, or the failure of a failing sub-task).  The call has not ended yet.
MapperInvoke ==
    /\ invoke_pc \in {"waiting", "awaiting"}
    /\ \E k \in (IF FailingTasks(mapper, invoke_input.kv) = {} THEN {""}
                 ELSE FailingTasks(mapper, invoke_input.kv)) :
         invoke_map' = mapper_invoke(mapper, invoke_input.kv, k)
    /\ invoke_read' = invoke_input
    /\ invoke_pc' = "resuming"
    /\ UNCHANGED <<invRes, invoke_unpacked, invoke_input, invoke_result_obj>>
    /\ UNCHANGED <<cfgVars, idVars, evVars, teeVars, genVars, mapVars>>

\* Another thread, or another task of the event loop, that holds the same
\* record sets or deletes keys of it: while invoke waits inside the map or
\* ainvoke is suspended at its await, after the sub-tasks have read the record
\* and before the call ends, or after the call.  A result that is the
\* caller's record itself changes with it.
OtherTaskWrites ==
    /\ invoke_pc \in {"waiting", "awaiting", "resuming", "done"}
    /\ IsDict(invoke_input)
    /\ \E x \in Records \ {invoke_input} :
         /\ invoke_input' = x
         /\ invRes' = IF invoke_result_obj = "input" THEN Returned(x)
                       ELSE invRes
    /\ UNCHANGED <<invoke_pc, invoke_unpacked, invoke_map, invoke_read,
                   invoke_result_obj>>
    /\ UNCHANGED <<cfgVars, idVars, evVars, teeVars, genVars, mapVars>>

\* Faulty variant of InvokeResume: input.update(self.mapper.invoke(input)) and
\* return input, the caller's record being changed in place and returned.
InvokeResume_UpdatesInput ==
    /\ mode = "sync"
    /\ invoke_pc = "resuming"
    /\ IF invoke_map.state = "raised"
       THEN /\ invRes' = invoke_map
            /\ UNCHANGED <<invoke_input, invoke_result_obj>>
       ELSE /\ invoke_input' = Dict(Merge(invoke_input.kv, invoke_map.value.kv))
            /\ invRes' = Returned(invoke_input')
            /\ invoke_result_obj' = "input"
    /\ invoke_pc' = "done"
    /\ UNCHANGED <<invoke_unpacked, invoke_map, invoke_read>>
    /\ UNCHANGED <<cfgVars, idVars, evVars, teeVars, genVars, mapVars>>

\* invoke(x), from the return of self.mapper.invoke on: the map's record, or
\* its failure, completes the dict display, and the dict the display built
\* is returned.  Nothing is assigned to the input.
InvokeResume ==
    /\ mode = "sync"
    /\ invoke_pc = "resuming"
    /\ invRes' = invoke(invoke_unpacked, invoke_map)
    /\ invoke_result_obj' = IF invRes'.state = "returned" THEN "display"
                             ELSE "none"
    /\ invoke_pc' = "done"
    /\ UNCHANGED <<invoke_unpacked, invoke_input, invoke_map, invoke_read>>
    /\ UNCHANGED <<cfgVars, idVars, evVars, teeVars, genVars, mapVars>>

\* ainvoke(x), from the end of its await on: the same for the awaited map.
AinvokeResume ==
    /\ mode = "async"
    /\ invoke_pc = "resuming"
    /\ invRes' = ainvoke(invoke_unpacked, invoke_map)
    /\ invoke_result_obj' = IF invRes'.state = "returned" THEN "display"
                             ELSE "none"
    /\ invoke_pc' = "done"
    /\ UNCHANGED <<invoke_unpacked, invoke_input, invoke_map, invoke_read>>
    /\ UNCHANGED <<cfgVars, idVars, evVars, teeVars, genVars, mapVars>>

\* The steps of one transform / atransform call: its caller, its generator,
\* the tee, the map stream and the background task.
TransformNext ==
    \/ CallerPull
    \/ GenStart
    \/ \E b \in Branches : TeeNext(b)
    \/ \E b \in Branches : TeeAcquire(b)
    \/ \E b \in Branches : TeePullSource(b)
    \/ \E b \in Branches : TeeFanout(b)
    \/ MapEmit
    \/ GenYieldFirst
    \/ GenExit
    \/ Abandon
    \/ Close
    \/ CancelTask

\* The transform call, and an invoke / ainvoke call on the same record.
Next ==
    \/ TransformNext
    \/ InvokeStart
    \/ AinvokeStart
    \/ MapperInvoke
    \/ OtherTaskWrites
    \/ InvokeResume
    \/ AinvokeResume

Spec == Init /\ [][Next]_vars

StreamSpec == StreamInit /\ [][Next]_vars

\* ------------------------------------- RunnablePassthrough, on its own
\* invoke(x) / ainvoke(x): the configured call of identity / aidentity on x.
PassthroughInvoke ==
    /\ passthrough_res.state = "notcalled"
    /\ \E x \in Items :
         passthrough_res' = [state |-> "returned", arg |-> x,
                             value |-> IF mode = "sync" THEN identity(x)
                                       ELSE aidentity(x)]
    /\ UNCHANGED <<passthrough_pc, passthrough_out>>
    /\ UNCHANGED <<cfgVars, evVars, teeVars, genVars, mapVars, invVars>>

\* The consumer of transform(input) / atransform(input) pulls one more chunk.
PassthroughTransformNext ==
    /\ passthrough_pc \in {"created", "running"}
    /\ Len(passthrough_out) < Len(RunnablePassthrough_transform(input))
    /\ passthrough_out' =
         Append(passthrough_out,
                RunnablePassthrough_transform(input)[Len(passthrough_out) + 1])
    /\ passthrough_pc' = "running"
    /\ UNCHANGED passthrough_res
    /\ UNCHANGED <<cfgVars, evVars, teeVars, genVars, mapVars, invVars>>

\* The transformer's iterator is exhausted: end-of-stream.
PassthroughTransformEnd ==
    /\ passthrough_pc \in {"created", "running"}
    /\ Len(passthrough_out) = Len(RunnablePassthrough_transform(input))
    /\ passthrough_pc' = "done"
    /\ UNCHANGED <<passthrough_out, passthrough_res>>
    /\ UNCHANGED <<cfgVars, evVars, teeVars, genVars, mapVars, invVars>>

PassthroughNext ==
    \/ PassthroughInvoke
    \/ PassthroughTransformNext
    \/ PassthroughTransformEnd

PassthroughSpec == Init /\ [][PassthroughNext]_vars

\* ------------------------------------------------ string run evaluator
\* Python's None for an optional key.
NoKey == "None"

ValueError(why) == [kind |-> "ValueError", task |-> why]
KeyError(key) == [kind |-> "KeyError", task |-> key]
NotImplementedError == [kind |-> "NotImplementedError", task |-> ""]
TypeError(why) == [kind |-> "TypeError", task |-> why]
RuntimeError == [kind |-> "RuntimeError", task |-> ""]

\* A Python str, as the sequence of its pieces, and a Python list.
Str(pieces) == [str |-> pieces]
List(items) == [list |-> items]

\* sep.join(strs): the strings of the list with sep between neighbours.
RECURSIVE Join(_, _)
Join(sep, strs) ==
    IF strs = <<>> THEN Str(<<>>)
    ELSE IF Len(strs) = 1 THEN strs[1]
    ELSE Str(strs[1].str \o <<sep>> \o Join(sep, Tail(strs)).str)

\* The value stored in a run's or an example's dict under a key.
ValueAt(of, key) == [of |-> of, key |-> key]
DictOver(of, keys) == Dict([k \in keys |-> ValueAt(of, k)])

\* A message dict {"type": ..., "data": {"content": ...}} of a chat model run.
MessageDict(type, content) ==
    Dict([k \in {"type", "data"} |->
            IF k = "type" THEN Str(<<type>>)
            ELSE Dict([c \in {"content"} |-> Str(<<content>>)])])
ChatMessages == List(<<MessageDict("human", "hi"), MessageDict("ai", "hello")>>)

\* The inputs of an LLM run: any of "prompts" (a list of strings), "prompt"
\* (a string) and "messages" (message dicts).
LLMInputValue(k) ==
    IF k = "prompts" THEN List(<<Str(<<"p1">>), Str(<<"p2">>)>>)
    ELSE IF k = "prompt" THEN Str(<<"p">>)
    ELSE ChatMessages
LLMInputs ==
    {Dict([k \in S |-> LLMInputValue(k)]) :
       S \in SUBSET {"prompts", "prompt", "messages"}}

\* The outputs of an LLM run: missing, empty, without generations, with an
\* empty list of them, with batches of text generations (one of them maybe
\* without its text), or with the messages of a chat generation.
Generation(text) == Dict([k \in {"text"} |-> Str(<<text>>)])
LLMGenerations ==
    {List(<<>>),
     List(<<List(<<Generation("t1")>>), List(<<Generation("t2")>>)>>),
     List(<<List(<<Generation("t1"), Dict(EmptyKV)>>)>>),
     List(<<Dict([k \in {"messages"} |-> ChatMessages])>>)}
LLMOutputs ==
    {None, Dict(EmptyKV)}
    \cup {Dict([k \in {"generations"} |-> g]) : g \in LLMGenerations}

\* Runs: chain and tool runs, with or without inputs and outputs, and LLM
\* runs; outputs may be missing (None) or empty; a run without outputs may
\* carry the error it ended with.
Runs ==
    [run_type : {"chain", "tool"},
     inputs : {DictOver("run.inputs", S) : S \in SUBSET {"question", "input"}},
     outputs : {None} \cup {DictOver("run.outputs", S) :
                              S \in SUBSET {"answer", "output"}},
     error : {""}]
    \cup [run_type : {"llm"}, inputs : LLMInputs, outputs : LLMOutputs,
          error : {""}]
    \cup [run_type : {"llm"}, inputs : {Dict(EmptyKV)}, outputs : {None},
          error : {"failed"}]

\* Examples: none supplied, or a dataset row with its outputs.
Examples ==
    {NoExample}
    \cup [supplied : {TRUE},
          outputs : {None} \cup {DictOver("example.outputs", S) :
                                   S \in {{}, {"answer"}, {"answer", "label"}}}]

\* The models a chain is built for: a language model, chains with one or two
\* input and output keys, a tool, and something that is none of these.
Models ==
    [kind : {"chain"},
     input_keys : {<<"question">>, <<"question", "input">>},
     output_keys : {<<"answer">>, <<"answer", "output">>}]
    \cup [kind : {"llm", "tool", "other"},
          input_keys : {<<>>}, output_keys : {<<>>}]

\* The string evaluators: with or without a required reference.
Evaluators == [requires_reference : BOOLEAN, evaluation_name : {"correctness"}]

Range(seq) == {seq[i] : i \in 1..Len(seq)}

\* Faulty variant of ChainStringRunMapper_map: a run without the prediction key
\* is mapped to the input alone.
ChainStringRunMapper_map_Partial(self, r) ==
    IF ~Truthy(r.outputs) THEN Raised(ValueError("no outputs"))
    ELSE IF r.run_type # "chain" THEN Raised(ValueError("not a chain run"))
    ELSE IF self.input_key \notin DOMAIN r.inputs.kv
    THEN Raised(ValueError("no input key"))
    ELSE IF self.prediction_key \notin DOMAIN r.outputs.kv
    THEN Returned(Dict([k \in {"input"} |-> r.inputs.kv[self.input_key]]))
    ELSE Returned(Dict([k \in {"input", "prediction"} |->
                          IF k = "input" THEN r.inputs.kv[self.input_key]
                          ELSE r.outputs.kv[self.prediction_key]]))

\* ChainStringRunMapper.map
ChainStringRunMapper_map(self, r) ==
    IF ~Truthy(r.outputs) THEN Raised(ValueError("no outputs"))
    ELSE IF r.run_type # "chain" THEN Raised(ValueError("not a chain run"))
    ELSE IF self.input_key \notin DOMAIN r.inputs.kv
    THEN Raised(ValueError("no input key"))
    ELSE IF self.prediction_key \notin DOMAIN r.outputs.kv
    THEN Raised(ValueError("no prediction key"))
    ELSE Returned(Dict([k \in {"input", "prediction"} |->
                          IF k = "input" THEN r.inputs.kv[self.input_key]
                          ELSE r.outputs.kv[self.prediction_key]]))

\* ToolStringRunMapper.map: the subscripts raise KeyError on a missing key.
ToolStringRunMapper_map(self, r) ==
    IF ~Truthy(r.outputs) THEN Raised(ValueError("no outputs"))
    ELSE IF "input" \notin DOMAIN r.inputs.kv THEN Raised(KeyError("input"))
    ELSE IF "output" \notin DOMAIN r.outputs.kv THEN Raised(KeyError("output"))
    ELSE Returned(Dict([k \in {"input", "prediction"} |->
                          IF k = "input" THEN r.inputs.kv["input"]
                          ELSE r.outputs.kv["output"]]))

\* messages_from_dict, then get_buffer_string: one line "Role: content" per
\* message, the lines joined by a newline.
messages_from_dict(messages) ==
    [i \in 1..Len(messages.list) |->
       [type |-> messages.list[i].kv["type"].str[1],
        content |-> messages.list[i].kv["data"].kv["content"]]]
get_buffer_string(chat_messages) ==
    Join("\n", [i \in 1..Len(chat_messages) |->
                  Str(<<IF chat_messages[i].type = "human" THEN "Human"
                        ELSE IF chat_messages[i].type = "ai" THEN "AI"
                        ELSE "System", ": ">>
                      \o chat_messages[i].content.str)])

\* LLMStringRunMapper.serialize_chat_messages
serialize_chat_messages(messages) ==
    get_buffer_string(messages_from_dict(messages))

\* LLMStringRunMapper.serialize_inputs: the prompts joined, else the prompt,
\* else the messages serialized, else a ValueError.
serialize_inputs(inputs) ==
    IF "prompts" \in DOMAIN inputs.kv
    THEN Returned(Join("\n\n", inputs.kv["prompts"].list))
    ELSE IF "prompt" \in DOMAIN inputs.kv
    THEN Returned(inputs.kv["prompt"])
    ELSE IF "messages" \in DOMAIN inputs.kv
    THEN Returned(serialize_chat_messages(inputs.kv["messages"]))
    ELSE Raised(ValueError("LLM Run must have either messages or prompts"))

\* "messages" in generations[0]: a key of a dict, or an item of a list (a
\* batch of generation dicts holds no string).
HasMessages(generation) ==
    /\ "kv" \in DOMAIN generation
    /\ "messages" \in DOMAIN generation.kv

\* [generation for gen_batch in generations for generation in gen_batch]
RECURSIVE Flatten(_)
Flatten(generations) ==
    IF generations = <<>> THEN <<>>
    ELSE generations[1].list \o Flatten(Tail(generations))

\* LLMStringRunMapper.serialize_outputs: no generations is a ValueError; the
\* messages of the first generation serialized, or the texts of every
\* generation of every batch joined; a generation without "text" is a KeyError.
serialize_outputs(outputs) ==
    IF \/ "generations" \notin DOMAIN outputs.kv
       \/ outputs.kv["generations"].list = <<>>
    THEN Raised(ValueError("LLM Run must have generations as outputs."))
    ELSE LET generations == outputs.kv["generations"].list IN
         IF HasMessages(generations[1])
         THEN Returned(serialize_chat_messages(generations[1].kv["messages"]))
         ELSE LET all == Flatten(generations) IN
              IF \E i \in 1..Len(all) : "text" \notin DOMAIN all[i].kv
              THEN Raised(KeyError("text"))
              ELSE Returned(Join("\n\n",
                                 [i \in 1..Len(all) |-> all[i].kv["text"]]))

\* LLMStringRunMapper.map: only LLM runs with outputs; a failure to serialize
\* the inputs or the outputs is raised as a ValueError.
LLMStringRunMapper_map(self, r) ==
    IF r.run_type # "llm" THEN Raised(ValueError("only supports LLM runs"))
    ELSE IF ~Truthy(r.outputs)
    THEN IF r.error # "" THEN Raised(ValueError("errored LLM run"))
         ELSE Raised(ValueError("outputs not found"))
    ELSE IF serialize_inputs(r.inputs).state = "raised"
    THEN Raised(ValueError("Could not parse LM input"))
    ELSE IF serialize_outputs(r.outputs).state = "raised"
    THEN Raised(ValueError("Could not parse LM prediction"))
    ELSE Returned(Dict([k \in {"input", "prediction"} |->
                          IF k = "input" THEN serialize_inputs(r.inputs).value
                          ELSE serialize_outputs(r.outputs).value]))

\* StringRunMapper.__call__: the check of the outputs, then the subclass's map.
StringRunMapper_call(self, r) ==
    IF ~Truthy(r.outputs) THEN Raised(ValueError("no outputs"))
    ELSE IF self.kind = "llm" THEN LLMStringRunMapper_map(self, r)
    ELSE IF self.kind = "chain" THEN ChainStringRunMapper_map(self, r)
    ELSE ToolStringRunMapper_map(self, r)

\* StringExampleMapper.map
StringExampleMapper_map(self, e) ==
    IF ~Truthy(e.outputs) THEN Raised(ValueError("example has no outputs"))
    ELSE IF self.reference_key = NoKey
    THEN IF Cardinality(DOMAIN e.outputs.kv) > 1
         THEN Raised(ValueError("multiple outputs"))
         ELSE Returned(Dict([k \in {"reference"} |->
                  e.outputs.kv[CHOOSE j \in DOMAIN e.outputs.kv : TRUE]]))
    ELSE IF self.reference_key \notin DOMAIN e.outputs.kv
    THEN Raised(ValueError("no reference key"))
    ELSE Returned(Dict([k \in {"reference"} |->
                          e.outputs.kv[self.reference_key]]))

\* StringExampleMapper.__call__
StringExampleMapper_call(self, e) ==
    IF ~Truthy(e.outputs) THEN Raised(ValueError("example has no outputs"))
    ELSE StringExampleMapper_map(self, e)

\* ChainStringRunMapper.from_chain
from_chain(model, input_key, prediction_key) ==
    LET input_error ==
            IF input_key = NoKey THEN Len(model.input_keys) > 1
            ELSE input_key \notin Range(model.input_keys)
        prediction_error ==
            IF prediction_key = NoKey THEN Len(model.output_keys) > 1
            ELSE prediction_key \notin Range(model.output_keys)
    IN IF input_error \/ prediction_error
       THEN Raised(ValueError("keys of the chain"))
       ELSE Returned([kind |-> "chain",
                      input_key |-> IF input_key = NoKey
                                    THEN model.input_keys[1] ELSE input_key,
                      prediction_key |-> IF prediction_key = NoKey
                                         THEN model.output_keys[1]
                                         ELSE prediction_key])

NoExampleMapper == [configured |-> FALSE, reference_key |-> NoKey]

\* StringRunEvaluatorChain.from_model_and_evaluator: the run mapper for the
\* model (a language model first, then a chain, then a tool), and an example
\* mapper exactly when a reference key is given; an evaluator that requires a
\* reference cannot be built without one.
from_model_and_evaluator(model, evaluator, input_key, prediction_key, reference_key) ==
    LET run_mapper ==
            IF model.kind = "llm"
            THEN Returned([kind |-> "llm", input_key |-> NoKey,
                           prediction_key |-> NoKey])
            ELSE IF model.kind = "chain"
            THEN from_chain(model, input_key, prediction_key)
            ELSE IF model.kind = "tool"
            THEN Returned([kind |-> "tool", input_key |-> NoKey,
                           prediction_key |-> NoKey])
            ELSE Raised(NotImplementedError)
    IN IF run_mapper.state = "raised" THEN run_mapper
       ELSE IF reference_key # NoKey
       THEN Returned([name |-> evaluator.evaluation_name,
                      run_mapper |-> run_mapper.value,
                      example_mapper |-> [configured |-> TRUE,
                                          reference_key |-> reference_key],
                      string_evaluator |-> evaluator])
       ELSE IF evaluator.requires_reference
       THEN Raised(ValueError("requires a reference"))
       ELSE Returned([name |-> evaluator.evaluation_name,
                      run_mapper |-> run_mapper.value,
                      example_mapper |-> NoExampleMapper,
                      string_evaluator |-> evaluator])

\* Faulty variant of prepare_input: without an example the reference is left
\* out instead of the call failing.
prepare_input_NoExampleCheck(self, r, e) ==
    LET mapped == StringRunMapper_call(self.run_mapper, r) IN
    IF mapped.state = "raised" THEN mapped
    ELSE IF self.example_mapper.configured /\ e.supplied
    THEN LET reference == StringExampleMapper_call(self.example_mapper, e) IN
         IF reference.state = "raised" THEN reference
         ELSE Returned(Dict(Merge(mapped.value.kv, reference.value.kv)))
    ELSE mapped

\* StringRunEvaluatorChain._prepare_input
prepare_input(self, r, e) ==
    LET mapped == StringRunMapper_call(self.run_mapper, r) IN
    IF mapped.state = "raised" THEN mapped
    ELSE IF self.example_mapper.configured
    THEN IF ~e.supplied THEN Raised(ValueError("requires an example"))
         ELSE LET reference == StringExampleMapper_call(self.example_mapper, e)
              IN IF reference.state = "raised" THEN reference
                 ELSE Returned(Dict(Merge(mapped.value.kv, reference.value.kv)))
    ELSE mapped

\* langchain.schema.RUN_KEY
RUN_KEY == "__run"

\* What the string evaluator may return: a score; a score with a key of its
\* own; a score with the run information of the evaluating chain.
EvaluatorOutputValue(k) ==
    IF k = "score" THEN 1
    ELSE IF k = "key" THEN Str(<<"other">>)
    ELSE Dict([j \in {"run_id"} |-> 7])
EvaluatorOutputs ==
    {Dict([k \in S |-> EvaluatorOutputValue(k)]) :
       S \in {{"score"}, {"score", "key"}, {"score", RUN_KEY}}}

\* EvaluationResult(key=key, **fields): the fields of the result; a field that
\* is not one of the model's (RUN_KEY) is not kept; evaluator_info is empty
\* unless given.
EvaluationResult(key, fields) ==
    [tag |-> "EvaluationResult",
     kv |-> [k \in {"key", "evaluator_info"} \cup (DOMAIN fields \ {RUN_KEY})
               |-> IF k = "key" THEN Str(<<key>>)
                   ELSE IF k \in DOMAIN fields THEN fields[k]
                   ELSE Dict(EmptyKV)]]

\* StringRunEvaluatorChain._prepare_output: key=self.name next to a "key" of
\* the output is a TypeError (two values for one keyword); the output's run
\* information goes into evaluator_info.
prepare_output(self, output) ==
    IF "key" \in DOMAIN output.kv
    THEN Raised(TypeError("multiple values for keyword argument 'key'"))
    ELSE LET evaluation_result == EvaluationResult(self.name, output.kv) IN
         IF RUN_KEY \in DOMAIN output.kv
         THEN Returned([evaluation_result EXCEPT
                          !.kv["evaluator_info"] =
                             Dict([k \in {RUN_KEY} |-> output.kv[RUN_KEY]])])
         ELSE Returned(evaluation_result)

\* A chain is built by from_model_and_evaluator and is about to be called, by
\* evaluate_run (sync) or aevaluate_run (async), on a run and maybe an example.
EvalInit ==
    /\ mapper = Restrict(FullMapper, {})
    /\ mode \in {"sync", "async"}
    /\ call = [op |-> "transform", x |-> None]
    /\ input = <<>>
    /\ AssignConstructed
    /\ \E model \in Models,
          evaluator \in Evaluators,
          reference_key \in {NoKey, "answer", "label"} :
         \E input_key \in (IF model.kind = "chain"
                           THEN {NoKey, "question", "input"} ELSE {NoKey}),
            prediction_key \in (IF model.kind = "chain"
                                THEN {NoKey, "answer", "output"} ELSE {NoKey}) :
            evaluator_chain = from_model_and_evaluator(
                                 model, evaluator, input_key, prediction_key,
                                 reference_key)
    /\ run \in Runs
    /\ example \in Examples
    /\ eval_pc = IF evaluator_chain.state = "returned" THEN "called"
                 ELSE "no_chain"
    /\ run_mapped = NotCalled
    /\ evaluate_strings_inputs = None
    /\ evaluator_calls = <<>>
    /\ feedback = NotCalled

\* _call / _acall, first statement: evaluate_strings_inputs =
\* self._prepare_input(inputs); a failure leaves the call.
EvalPrepareInput ==
    /\ eval_pc = "called"
    /\ run_mapped' = StringRunMapper_call(evaluator_chain.value.run_mapper, run)
    /\ LET prepared == prepare_input(evaluator_chain.value, run, example) IN
       IF prepared.state = "raised"
       THEN /\ eval_pc' = "failed"
            /\ feedback' = prepared
            /\ evaluate_strings_inputs' = None
       ELSE /\ eval_pc' = "prepared"
            /\ feedback' = feedback
            /\ evaluate_strings_inputs' = prepared.value
    /\ UNCHANGED <<evaluator_chain, run, example, evaluator_calls>>
    /\ UNCHANGED <<cfgVars, idVars, teeVars, genVars, mapVars, invVars>>

\* The keyword arguments of the call of the string evaluator:
\* **evaluate_strings_inputs, callbacks=callbacks.
Callbacks == [tag |-> "callbacks", kv |-> EmptyKV]
evaluate_strings_kwargs(inputs) ==
    Dict(Merge(inputs.kv, [k \in {"callbacks"} |-> Callbacks]))

\* _call / _acall, second statement: the string evaluator is called
\* (evaluate_strings, or aevaluate_strings awaited) with the prepared inputs
\* and the callbacks as keyword arguments; it is now running.
EvalCallEvaluator ==
    /\ eval_pc = "prepared"
    /\ evaluator_calls' = Append(evaluator_calls,
                                 evaluate_strings_kwargs(evaluate_strings_inputs))
    /\ eval_pc' = "evaluating"
    /\ UNCHANGED <<evaluator_chain, run, example, run_mapped,
                   evaluate_strings_inputs, feedback>>
    /\ UNCHANGED <<cfgVars, idVars, teeVars, genVars, mapVars, invVars>>

\* _call / _acall, the rest: the string evaluator returns its output, and
\* self._prepare_output(chain_output) is the feedback, or its failure ends the
\* call.
EvalEvaluatorReturns ==
    /\ eval_pc = "evaluating"
    /\ \E chain_output \in EvaluatorOutputs :
         /\ feedback' = prepare_output(evaluator_chain.value, chain_output)
         /\ eval_pc' = IF feedback'.state = "raised" THEN "failed" ELSE "done"
    /\ UNCHANGED <<evaluator_chain, run, example, run_mapped,
                   evaluate_strings_inputs, evaluator_calls>>
    /\ UNCHANGED <<cfgVars, idVars, teeVars, genVars, mapVars, invVars>>

\* The string evaluator fails: its failure leaves _call / _acall, the
\* evaluator having been called.
EvalEvaluatorRaises ==
    /\ eval_pc = "evaluating"
    /\ feedback' = Raised(RuntimeError)
    /\ eval_pc' = "failed"
    /\ UNCHANGED <<evaluator_chain, run, example, run_mapped,
                   evaluate_strings_inputs, evaluator_calls>>
    /\ UNCHANGED <<cfgVars, idVars, teeVars, genVars, mapVars, invVars>>

EvalNext ==
    \/ EvalPrepareInput
    \/ EvalCallEvaluator
    \/ EvalEvaluatorReturns
    \/ EvalEvaluatorRaises

EvalSpec == EvalInit /\ [][EvalNext]_vars

\* ------------------------------------------------------------ fairness
\* The steps of the thread (task) that runs the generator for the caller.
GenProc ==
    \/ GenStart
    \/ GenYieldFirst
    \/ GenExit
    \/ TeeNext("for_passthrough")
    \/ TeeAcquire("for_passthrough")
    \/ TeePullSource("for_passthrough")
    \/ TeeFanout("for_passthrough")
    \/ /\ gen = "map_next"
       /\ \/ TeeNext("for_map") \/ TeeAcquire("for_map")
          \/ TeePullSource("for_map") \/ TeeFanout("for_map")
          \/ MapEmit

\* The steps of the executor thread (asyncio task) that runs the future.
BgProc ==
    /\ first_map_chunk_future.state = "running"
    /\ \/ TeeNext("for_map") \/ TeeAcquire("for_map")
       \/ TeePullSource("for_map") \/ TeeFanout("for_map")
       \/ MapEmit

\* Threads and tasks that can run do run; a caller that has not abandoned the
\* stream pulls again.
LiveSpec ==
    /\ Init
    /\ [][TransformNext]_vars
    /\ WF_vars(CallerPull)
    /\ WF_vars(GenProc)
    /\ WF_vars(BgProc)


\* =============================================================== claims
\* The chunks of one branch among those yielded, in the order yielded.
ChunksOf(src) ==
    LET sel == SelectSeq(out, LAMBDA e : e.src = src)
    IN [i \in 1..Len(sel) |-> sel[i].chunk]

IsPrefix(s, t) == Len(s) <= Len(t) /\ \A i \in 1..Len(s) : s[i] = t[i]

\* The input items before the first one that is not a Structured Record.
FirstBad == IF \E i \in 1..Len(input) : ~IsDict(input[i])
            THEN CHOOSE i \in 1..Len(input) :
                   /\ ~IsDict(input[i])
                   /\ \A j \in 1..(i - 1) : IsDict(input[j])
            ELSE Len(input) + 1
ValidPrefix == SubSeq(input, 1, FirstBad - 1)

\* What the passthrough branch owes the caller for a sequence of records: each
\* record without the mapping's keys, the empty remainders left out.
WithoutMapperKeys(item) ==
    Dict([k \in DOMAIN item.kv \ DOMAIN mapper |-> item.kv[k]])
ExpectedPassthrough(items) ==
    SelectSeq([i \in 1..Len(items) |-> WithoutMapperKeys(items[i])],
              LAMBDA d : d.kv # EmptyKV)

\* The generator has left the passthrough loop by its normal end: its branch
\* of the tee has reported the end of the sequence.  It may since have yielded
\* map chunks, ended, failed or been closed.
PassthroughDrained ==
    /\ delivered["for_passthrough"] # <<>>
    /\ delivered["for_passthrough"][Len(delivered["for_passthrough"])] = EndOfSeq

\* C1: in every run of transform / atransform, under every interleaving of the
\* passthrough consumer and the background map task, no passthrough chunk is
\* yielded after a map-branch chunk.
C1_PassthroughBeforeMap ==
    \A i, j \in 1..Len(out) :
        (i < j /\ out[i].src = "map") => out[j].src = "map"

\* C1's case: the first map chunk is ready in the future while the passthrough
\* branch still has buffered items to drain, and a passthrough chunk was yielded.
C1_Witness ==
    /\ first_map_chunk_future.state = "returned"
    /\ IsDict(first_map_chunk_future.value)
    /\ gen = "at_yield_pt"
    /\ buffers["for_passthrough"] # <<>>
    /\ out # <<>>
    /\ out[Len(out)].src = "passthrough"

\* C2: invoke / ainvoke on a Structured Record returns the shallow union of
\* the input and the map's output over that same input: every map key with
\* the sub-task's result on the input, every other input key with its input
\* value, and no other key.  That same input is what the sub-tasks read unless
\* another thread or task changed the record between the call and their
\* reading; in every case the items are those of the input as handed in and
\* the map keys carry the sub-tasks' results on the record as they read it.
C2_InvokeIsUnion ==
    (invRes.state # "notcalled" /\ IsDict(input[1]))
    => /\ invoke_unpacked = input[1]
       /\ IsDict(invoke_read)
       /\ (invoke_read = input[1] /\ FailingTasks(mapper, input[1].kv) = {})
            => invRes = Returned(Dict(Merge(input[1].kv,
                  [k \in DOMAIN mapper |->
                     TaskResult(mapper[k], input[1].kv).val])))
       /\ FailingTasks(mapper, invoke_read.kv) = {}
            => /\ invRes.state = "returned"
               /\ IsDict(invRes.value)
               /\ DOMAIN invRes.value.kv = DOMAIN input[1].kv \cup DOMAIN mapper
               /\ \A k \in DOMAIN mapper :
                    invRes.value.kv[k]
                      = TaskResult(mapper[k], invoke_read.kv).val
               /\ \A k \in DOMAIN input[1].kv \ DOMAIN mapper :
                    invRes.value.kv[k] = input[1].kv[k]

\* C2's case: {"a": 1, "b": 2} under {"b": returns 99, "c": a + b} gave
\* {"a": 1, "b": 99, "c": 3}.
C2_Witness ==
    /\ input = <<Dict(FullRecord)>>
    /\ invoke_read = input[1]
    /\ mapper = FullMapper
    /\ invRes.state = "returned"
    /\ invRes.value = Dict([k \in {"a", "b", "c"} |->
                              CASE k = "a" -> 1 [] k = "b" -> 99 [] k = "c" -> 3])

\* Key-wise merge of yielded chunks, a later chunk overwriting an earlier one;
\* a chunk that is not a record cannot be merged.
RECURSIVE MergeAll(_)
MergeAll(chunks) ==
    IF chunks = <<>> THEN EmptyKV
    ELSE Merge(MergeAll(SubSeq(chunks, 1, Len(chunks) - 1)),
               chunks[Len(chunks)].kv)
Concatenated ==
    LET chunks == [i \in 1..Len(out) |-> out[i].chunk]
    IN IF \E i \in 1..Len(chunks) : ~IsDict(chunks[i])
       THEN [tag |-> "unmergeable", kv |-> EmptyKV]
       ELSE Dict(MergeAll(chunks))

\* C3: the chunks of stream(x), fully consumed and merged key-wise, equal
\* invoke(x), x not being changed by anyone else meanwhile.
C3_StreamEqualsInvoke ==
    (/\ Len(input) = 1
     /\ gen = "done"
     /\ invRes.state = "returned"
     /\ invoke_read = input[1])
    => Concatenated = invRes.value


\* C4 as stated: when some input item is not a Structured Record, the stream
\* call fails with a TypeMismatch and has yielded no chunk at all.
C4_NoOutputOnNonRecord ==
    (FirstBad <= Len(input) /\ caller = "finished")
    => (gen = "failed" /\ err = TypeMismatch /\ out = <<>>)

\* C4 amended: when some input item is not a Structured Record, the call never
\* ends normally and fails with a TypeMismatch; what was yielded before the
\* failure is exactly the non-empty filtered passthrough chunks of the items
\* before the first offending item (nothing when it is the first item), never
\* a map chunk; invoke / ainvoke on such an item raises the TypeMismatch with
\* no record, at the assert, before the map is called or awaited.
C4_FailsAtFirstNonRecord ==
    FirstBad <= Len(input)
    => /\ gen # "done"
       /\ caller = "finished" => (gen = "failed" /\ err = TypeMismatch)
       /\ \A i \in 1..Len(out) : out[i].src = "passthrough"
       /\ IsPrefix(ChunksOf("passthrough"), ExpectedPassthrough(ValidPrefix))
       /\ gen = "failed"
            => ChunksOf("passthrough") = ExpectedPassthrough(ValidPrefix)
       /\ (Len(input) = 1 /\ invRes.state # "notcalled")
            => invRes = Raised(TypeMismatch)
       /\ invoke_pc \in {"idle", "done"}
       /\ invoke_map = NotCalled

\* C4's case: a record, then a bare integer; the record's chunk was yielded and
\* the call then failed with the TypeMismatch.
C4_Witness ==
    /\ Len(input) >= 2
    /\ FirstBad = 2
    /\ gen = "failed"
    /\ err = TypeMismatch
    /\ Len(out) = 1

\* C5: every passthrough chunk reaching the caller is a non-empty record with
\* no mapper key, and the passthrough chunks are the non-empty filtered input
\* chunks in input order: a prefix of them while draining, all of them once the
\* passthrough branch has ended.
C5_PassthroughFiltered ==
    /\ \A i \in 1..Len(out) :
         out[i].src = "passthrough"
         => /\ IsDict(out[i].chunk)
            /\ out[i].chunk.kv # EmptyKV
            /\ DOMAIN out[i].chunk.kv \cap DOMAIN mapper = {}
    /\ IsPrefix(ChunksOf("passthrough"), ExpectedPassthrough(ValidPrefix))
    /\ PassthroughDrained
         => ChunksOf("passthrough") = ExpectedPassthrough(input)

\* C5's case: the chunks {a:1}, {b:2}, {} under mapper keys {b, c} gave the
\* single passthrough chunk {a:1}.
C5_Witness ==
    /\ input = <<Dict(Restrict(FullRecord, {"a"})),
                 Dict(Restrict(FullRecord, {"b"})),
                 Dict(EmptyKV)>>
    /\ mapper = FullMapper
    /\ PassthroughDrained
    /\ ChunksOf("passthrough") = <<Dict(Restrict(FullRecord, {"a"}))>>


\* C6: a failure raised in the map stream, in the prefetch or in a later chunk,
\* is never swallowed (the stream call does not end normally, and when it has
\* ended it has failed with that failure) and, with the caller pulling, the
\* call eventually fails: the caller is not left blocked.
C6_MapFailurePropagates ==
    /\ [](mapFailed # NoErr
          => /\ gen # "done"
             /\ caller = "finished" => (gen = "failed" /\ err = mapFailed))
    /\ (mapFailed # NoErr) ~> (gen = "failed" \/ caller = "abandoned")

\* C6's case: a sub-task failed in the map stream and the stream call failed
\* with that failure after a chunk had been yielded.
C6_Witness ==
    /\ mapFailed.kind = "UnitFailure"
    /\ gen = "failed"
    /\ err = mapFailed
    /\ out # <<>>

\* C7: each tee branch hands its consumer the source's items in source order
\* and reports end-of-sequence only after the last of them, whatever the pace
\* of the other branch.
C7_TeeBranchesYieldSource ==
    \A b \in Branches : IsPrefix(delivered[b], Append(input, EndOfSeq))

\* C7's case: both branches have been drained to the end of a source of at
\* least two items.
C7_Witness ==
    /\ Len(input) >= 2
    /\ \A b \in Branches : delivered[b] = Append(input, EndOfSeq)

\* C8: at most one branch is inside the tee's pull-and-fan-out step, the one
\* holding the lock, and the source's items are pulled once each, in order.
C8_TeeCriticalSection ==
    /\ Cardinality({b \in Branches : teePc[b] \in {"locked", "fanout"}}) <= 1
    /\ \A b \in Branches : teePc[b] \in {"locked", "fanout"} <=> lock = b
    /\ srcPos <= Len(input)
    /\ pulls = [i \in 1..srcPos |-> i]

\* C8's case: the passthrough consumer and the background map task both found
\* their buffers empty and want the same item; one is in the critical section
\* with the pulled item, the other waits for the lock.
C8_Witness ==
    /\ first_map_chunk_future.state = "running"
    /\ teePc["for_map"] = "fanout"
    /\ teePc["for_passthrough"] = "acquire"
    /\ buffers["for_passthrough"] = <<>>

\* C9: when a sub-task of the map fails (on the record as the sub-tasks read
\* it), the map fails with the UnitFailure of a failing sub-task, although
\* sibling sub-tasks have their results, and invoke / ainvoke fails with that
\* same UnitFailure and returns no record.
C9_SubTaskFailureFailsInvoke ==
    /\ (invoke_map.state # "notcalled"
        /\ FailingTasks(mapper, invoke_read.kv) # {})
       => /\ invoke_map.state = "raised"
          /\ invoke_map.err.kind = "UnitFailure"
          /\ invoke_map.err.task \in FailingTasks(mapper, invoke_read.kv)
          /\ invoke_map.value = None
    /\ (invoke_map.state = "raised" /\ invoke_pc = "done")
       => invRes = invoke_map
    /\ (invRes.state = "raised" /\ IsDict(input[1]))
       => (invoke_map = invRes /\ invoke_result_obj = "none")

\* C9's case: on {"a": 1} the sub-task for "b" has its result 99 and the one
\* for "c" fails; invoke failed, attributing "c".
C9_Witness ==
    /\ input = <<Dict(Restrict(FullRecord, {"a"}))>>
    /\ invoke_read = input[1]
    /\ mapper = FullMapper
    /\ invRes = Raised(UnitFailure("c"))

\* C10: once the caller has abandoned the stream, the generator holds no tee
\* lock and is not inside a tee pull, a background future that is still running
\* always has a step it can take, and eventually the future is no longer
\* running (it ran to completion, or its task was cancelled by the event loop
\* shutting down) and no close of the generator is left waiting for it.
C10_AbandonDoesNotDeadlock ==
    /\ [](caller = "abandoned"
          => /\ lock # "for_passthrough" /\ teePc["for_passthrough"] = "idle"
             /\ first_map_chunk_future.state = "running" => ENABLED BgProc)
    /\ (caller = "abandoned")
         ~> (first_map_chunk_future.state # "running" /\ gen # "exiting")

\* C10's case: the caller left after one chunk; the background task went on
\* pulling from the source (the passthrough buffer holds what it pulled), its
\* future completed, and the generator's close ended.
C10_Witness ==
    /\ caller = "abandoned"
    /\ gen = "closed"
    /\ mode = "sync"
    /\ Len(out) = 1
    /\ buffers["for_passthrough"] # <<>>
    /\ first_map_chunk_future.state = "returned"
    /\ IsDict(first_map_chunk_future.value)


\* C11: RunnablePassthrough returns its input unchanged from invoke / ainvoke,
\* and its transform / atransform yields the input sequence unchanged: the same
\* chunks, as many of them, in the same order, none merged with another.
C11_IdentityUnit ==
    /\ passthrough_res.state # "notcalled"
         => (passthrough_res.state = "returned"
             /\ passthrough_res.value = passthrough_res.arg)
    /\ passthrough_out = SubSeq(input, 1, Len(passthrough_out))
    /\ passthrough_pc = "done" => passthrough_out = input

\* C11's case: a stream of at least two chunks that differ was passed through
\* to its end, and a record was invoked.
C11_Witness ==
    /\ Len(input) >= 2
    /\ input[1] # input[2]
    /\ passthrough_pc = "done"
    /\ passthrough_out = input
    /\ passthrough_res.state = "returned"
    /\ IsDict(passthrough_res.arg)

\* The values that sub-task k has had emitted to the caller, in the order yielded.
MapChunksOfTask(k) ==
    LET sel == SelectSeq(out, LAMBDA e : /\ e.src = "map"
                                         /\ IsDict(e.chunk)
                                         /\ DOMAIN e.chunk.kv = {k})
    IN [i \in 1..Len(sel) |-> sel[i].chunk.kv[k]]

\* C12: in the map portion of the stream output every record names exactly one
\* sub-task of the mapping, and the chunks of any one sub-task reach the caller
\* in the order that sub-task produced them, each as {task_name: chunk},
\* whatever the interleaving with the other sub-tasks and the prefetch.
C12_SubTaskOrderKept ==
    /\ \A i \in 1..Len(out) :
         (out[i].src = "map" /\ IsDict(out[i].chunk))
         => \E k \in DOMAIN mapper : DOMAIN out[i].chunk.kv = {k}
    /\ \A k \in DOMAIN mapper :
         /\ IsPrefix(MapChunksOfTask(k),
                     TaskStream(mapper[k], MergeAll(input)).chunks)
         /\ gen = "done"
              => MapChunksOfTask(k) = TaskStream(mapper[k], MergeAll(input)).chunks

\* C12's case: the streaming sub-task's two chunks reached the caller in its
\* order, with the other sub-task's chunk between them.
C12_Witness ==
    /\ mapper = StreamMapper
    /\ ChunksOf("map") = <<Dict([j \in {"b"} |-> 1]), Dict([j \in {"c"} |-> 3]),
                           Dict([j \in {"b"} |-> 2])>>

\* The passthrough branch has reported its end to the generator.
PassthroughExhausted == PassthroughDrained

\* C13: while the background prefetch has not been started nothing has been
\* requested of the map stream and no passthrough item has been consumed; from
\* its start until the passthrough branch is exhausted exactly one chunk has
\* been requested of the map stream, so that it has produced at most one; and
\* the map stream never produces a chunk that was not requested.
C13_OneChunkLookahead ==
    /\ first_map_chunk_future.state = "notcalled"
         => (map_output.requests = 0 /\ delivered["for_passthrough"] = <<>>)
    /\ (first_map_chunk_future.state # "notcalled" /\ ~PassthroughExhausted)
         => (map_output.requests = 1 /\ Len(map_output.produced) <= 1)
    /\ Len(map_output.produced) <= map_output.requests

\* C13's case: the prefetched chunk is ready, the map stream has more to give,
\* and the generator is still inside the passthrough loop with items buffered.
C13_Witness ==
    /\ gen = "at_yield_pt"
    /\ first_map_chunk_future.state = "returned"
    /\ Len(map_output.produced) = 1
    /\ map_output.phase = "emitting"
    /\ map_output.left # {}
    /\ buffers["for_passthrough"] # <<>>

\* The map chunks yielded to the caller, the null placeholder of an exhausted
\* prefetch (which no map stream produced) left out.
MapChunksYielded == SelectSeq(ChunksOf("map"), IsDict)

\* C14: the map chunks reach the caller only after the passthrough branch is
\* exhausted; they are the chunks the map stream produced, in the order it
\* produced them, the prefetched one first: a prefix of them while the stream
\* runs, each exactly once, and all of them once the stream has ended.
C14_MapChunksOnceInOrder ==
    /\ ChunksOf("map") # <<>> => PassthroughExhausted
    /\ IsPrefix(MapChunksYielded, map_output.produced)
    /\ map_output.produced # <<>>
         => /\ first_map_chunk_future.state = "returned"
            /\ first_map_chunk_future.value = map_output.produced[1]
    /\ ChunksOf("map") # <<>>
         => ChunksOf("map")[1] = first_map_chunk_future.value
    /\ gen = "done" => MapChunksYielded = map_output.produced

\* C14's case: a map stream of three chunks, the first of them prefetched, has
\* been yielded whole after a passthrough chunk.
C14_Witness ==
    /\ gen = "done"
    /\ Len(map_output.produced) = 3
    /\ ChunksOf("passthrough") # <<>>
    /\ ChunksOf("map") = map_output.produced

\* No input item is a non-record and, on a non-empty input, no sub-task fails.
CleanRun ==
    /\ FirstBad > Len(input)
    /\ input = <<>> \/ FailingTasks(mapper, MergeAll(input)) = {}

\* The most chunks a stream call can yield: one per input item, and one per
\* sub-task or the single result of the prefetch.
MostChunks ==
    Len(input) + (IF Cardinality(DOMAIN mapper) > 1
                  THEN Cardinality(DOMAIN mapper) ELSE 1)

\* C15: on a finite input with sub-tasks that terminate, a stream call whose
\* caller keeps pulling eventually ends, whatever the fair interleaving of the
\* caller, the generator and the background task at the tee's lock: with the
\* end-of-stream when no item and no sub-task fails, and having yielded no more
\* than one chunk per input item and per sub-task.
C15_StreamTerminates ==
    /\ [](Len(out) <= MostChunks)
    /\ <>(\/ caller = "abandoned"
          \/ /\ caller = "finished"
             /\ gen \in {"done", "failed"}
             /\ CleanRun => gen = "done")

\* C15's case: the longest input was streamed to its end, both branches having
\* gone through the tee's lock for its items.
C15_Witness ==
    /\ Len(input) = MaxLen
    /\ mapper = FullMapper
    /\ gen = "done"
    /\ caller = "finished"
    /\ srcPos = Len(input)
    /\ Len(out) = MostChunks

\* C16: the map branch is handed the input chunks themselves, unfiltered and
\* in source order, and the map stream's sub-tasks run on their merge: every
\* chunk the map stream produces holds the sub-task's result on the unfiltered
\* input, also for a key that the mapping overrides.
C16_MapSeesUnfilteredInput ==
    /\ \A i \in 1..Len(delivered["for_map"]) :
         delivered["for_map"][i] = Append(input, EndOfSeq)[i]
    /\ map_output.acc = MergeAll(SelectSeq(delivered["for_map"], IsDict))
    /\ \A i \in 1..Len(map_output.produced) :
         \A k \in DOMAIN map_output.produced[i].kv :
            /\ TaskResult(mapper[k], MergeAll(input)).ok
            /\ map_output.produced[i].kv[k]
                 = TaskResult(mapper[k], MergeAll(input)).val

\* C16's case: {"a": 1, "b": 2} under {"b": returns 99, "c": a + b}; the
\* passthrough chunk is {"a": 1} and the map stream produced {"c": 3}.
C16_Witness ==
    /\ input = <<Dict(FullRecord)>>
    /\ mapper = FullMapper
    /\ ChunksOf("passthrough") = <<Dict(Restrict(FullRecord, {"a"}))>>
    /\ \E i \in 1..Len(map_output.produced) :
         map_output.produced[i] = Dict([j \in {"c"} |-> 3])

\* What a finished transform / atransform call owes for a chunk sequence: the
\* filtered passthrough chunks of the records before the first non-record; the
\* TypeMismatch when there is a non-record; otherwise the sub-tasks' one-key
\* records, each once, in any order, and the end-of-stream, or the failure of a
\* failing sub-task after some of the others' records.
FirstBadIn(items) ==
    IF \E i \in 1..Len(items) : ~IsDict(items[i])
    THEN CHOOSE i \in 1..Len(items) :
           /\ ~IsDict(items[i])
           /\ \A j \in 1..(i - 1) : IsDict(items[j])
    ELSE Len(items) + 1
EndsAsOwedFor(items) ==
    LET bad == FirstBadIn(items)
        failing == FailingTasks(mapper, MergeAll(items))
        owed == {Dict([j \in {k} |-> TaskResult(mapper[k], MergeAll(items)).val]) :
                   k \in DOMAIN mapper \ failing}
        got == ChunksOf("map")
    IN
    /\ ChunksOf("passthrough")
         = ExpectedPassthrough(SubSeq(items, 1, bad - 1))
    /\ \A i, j \in 1..Len(out) :
         (i < j /\ out[i].src = "map") => out[j].src = "map"
    /\ IF bad <= Len(items)
       THEN gen = "failed" /\ err = TypeMismatch /\ got = <<>>
       ELSE IF items = <<>> \/ DOMAIN mapper = {}
       THEN gen = "done" /\ got = <<None>>
       ELSE /\ \A i \in 1..Len(got) : got[i] \in owed
            /\ \A i, j \in 1..Len(got) : got[i] = got[j] => i = j
            /\ IF failing = {}
               THEN gen = "done" /\ Len(got) = Cardinality(owed)
               ELSE /\ gen = "failed"
                    /\ err.kind = "UnitFailure"
                    /\ err.task \in failing

\* C17: stream(x) hands transform the one-chunk sequence [x], and astream(x)
\* hands atransform the same: the call runs on that sequence and, finished, has
\* yielded and ended as transform / atransform owes for [x].
C17_StreamIsTransformOfOne ==
    call.op = "stream"
    => /\ input = <<call.x>>
       /\ caller = "finished" => EndsAsOwedFor(<<call.x>>)

\* C17's case: astream({"a": 1, "b": 2}) under the example mapping has yielded
\* {"a": 1} and the two map chunks, and ended.
C17_Witness ==
    /\ call = [op |-> "stream", x |-> Dict(FullRecord)]
    /\ mode = "async"
    /\ mapper = FullMapper
    /\ gen = "done"
    /\ Len(out) = 3

\* C18: with single-chunk sub-tasks, what a finished call has yielded and how
\* it has ended is the same function of the input chunk sequence and of the
\* mapping for transform and for atransform: the same chunks (the sub-tasks'
\* records in the order they became ready), the same failure on the same
\* inputs.
C18_AsyncAgreesWithSync ==
    caller = "finished" => EndsAsOwedFor(input)

\* C18's case: an atransform call failed with a sub-task's failure after the
\* passthrough chunks and another sub-task's record.
C18_Witness ==
    /\ mode = "async"
    /\ call.op = "transform"
    /\ gen = "failed"
    /\ err = UnitFailure("c")
    /\ ChunksOf("passthrough") # <<>>
    /\ ChunksOf("map") = <<Dict([j \in {"b"} |-> 99])>>

\* The items a branch's consumer has taken, and the items pulled from the
\* source and distributed to the buffers.
Consumed(b) ==
    Len(SelectSeq(delivered[b], LAMBDA item : item # EndOfSeq))
Distributed ==
    IF \E p \in Branches : teePc[p] = "fanout" THEN srcPos - 1 ELSE srcPos
MostConsumed ==
    CHOOSE n \in {Consumed(b) : b \in Branches} :
        \A b \in Branches : Consumed(b) <= n

\* C19 as stated: each branch's buffer holds exactly the items distributed
\* and not yet consumed by the branch, in source order, and is never longer
\* than the number of items by which the fastest branch is ahead of it.
C19_BufferWithinLead ==
    \A b \in Branches :
      /\ buffers[b] = SubSeq(input, Consumed(b) + 1, Distributed)
      /\ Len(buffers[b]) <= MostConsumed - Consumed(b)

\* C19 amended: in every state of the tee each branch's buffer holds exactly
\* the items pulled from the source and distributed that the branch has not
\* yet consumed, in source order; a buffer is longer than the lead of the
\* fastest branch by at most one item, and only while the branch that pulled
\* that item has it alone in its own buffer, about to return it; at every
\* other time no buffer is longer than the lead of the fastest branch.
C19_TeeBuffers ==
    /\ \A b \in Branches :
         /\ buffers[b] = SubSeq(input, Consumed(b) + 1, Distributed)
         /\ Len(buffers[b]) <= (MostConsumed - Consumed(b)) + 1
         /\ Distributed = MostConsumed
              => Len(buffers[b]) = MostConsumed - Consumed(b)
    /\ Distributed <= MostConsumed + 1
    /\ Distributed = MostConsumed + 1
         => \E p \in Branches :
              /\ Active(p)
              /\ teePc[p] = "idle"
              /\ Consumed(p) = MostConsumed
              /\ Len(buffers[p]) = 1

\* C19's case: the background map task is one item ahead of the passthrough
\* consumer and has just pulled another item, which it has alone in its own
\* buffer; the passthrough consumer's buffer holds both items.
C19_Witness ==
    /\ Consumed("for_map") = Consumed("for_passthrough") + 1
    /\ Distributed = Consumed("for_map") + 1
    /\ Len(buffers["for_map"]) = 1
    /\ Len(buffers["for_passthrough"]) = 2
    /\ input[Consumed("for_passthrough") + 1]
         # input[Consumed("for_passthrough") + 2]

\* C20: every chunk that transform / atransform yields is a Structured Record.
C20_EveryChunkIsRecord ==
    \A i \in 1..Len(out) : IsDict(out[i].chunk)

\* C21: every step of invoke / ainvoke (up to the wait for the map or the
\* await of it, and from the map's outcome to the return or failure) leaves
\* the caller's input record as it was, with the same keys and values, also
\* for the keys that the mapping overrides in the result; a record that is
\* returned is the dict the display built, not the caller's record, so a
\* later change of the caller's record does not show in it.
C21_InvokeLeavesInput ==
    /\ [][(invRes' # invRes \/ invoke_pc' # invoke_pc)
          => (invoke_input' = invoke_input /\ input' = input
              /\ call' = call)]_vars
    /\ [][invoke_input' # invoke_input => invRes' = invRes]_vars
    /\ [](invRes.state = "returned" => invoke_result_obj = "display")

\* C21's case: invoke on {"a": 1, "b": 2} under {"b": returns 99, "c": a + b}
\* returned a record with "b" at 99 and "c" added, and the input still has "b"
\* at 2 and no "c".
C21_Witness ==
    /\ invRes.state = "returned"
    /\ invoke_result_obj = "display"
    /\ mapper = FullMapper
    /\ DOMAIN invoke_input.kv = {"a", "b"}
    /\ invoke_input.kv["b"] = 2
    /\ invRes.value.kv["b"] = 99
    /\ "c" \in DOMAIN invRes.value.kv

\* The chain's run mapper is a ChainStringRunMapper and has been called.
ChainMapperCalled ==
    /\ evaluator_chain.state = "returned"
    /\ evaluator_chain.value.run_mapper.kind = "chain"
    /\ run_mapped.state # "notcalled"

\* The run has outputs, is a chain run and holds both configured keys.
RunMappable ==
    /\ run.outputs # None
    /\ DOMAIN run.outputs.kv # {}
    /\ run.run_type = "chain"
    /\ evaluator_chain.value.run_mapper.input_key \in DOMAIN run.inputs.kv
    /\ evaluator_chain.value.run_mapper.prediction_key
         \in DOMAIN run.outputs.kv

\* C22: the chain run mapper returns {input: run.inputs[input_key],
\* prediction: run.outputs[prediction_key]} when the run has outputs, is a
\* chain run and holds both configured keys; otherwise it raises an error and
\* returns no record, and the evaluator chain's call ends with that error,
\* the string evaluator not having been called.
C22_ChainMapperAllOrNothing ==
    ChainMapperCalled
    => IF RunMappable
       THEN /\ run_mapped.state = "returned"
            /\ DOMAIN run_mapped.value.kv = {"input", "prediction"}
            /\ run_mapped.value.kv["input"]
                 = ValueAt("run.inputs",
                           evaluator_chain.value.run_mapper.input_key)
            /\ run_mapped.value.kv["prediction"]
                 = ValueAt("run.outputs",
                           evaluator_chain.value.run_mapper.prediction_key)
       ELSE /\ run_mapped.state = "raised"
            /\ run_mapped.value = None
            /\ run_mapped.err.kind = "ValueError"
            /\ eval_pc = "failed"
            /\ feedback = run_mapped
            /\ evaluator_calls = <<>>

\* C22's case: a chain run that has its input key and some output, but not the
\* prediction key; the mapper raised and the call failed with its error.
C22_Witness ==
    /\ ChainMapperCalled
    /\ run.run_type = "chain"
    /\ evaluator_chain.value.run_mapper.input_key \in DOMAIN run.inputs.kv
    /\ DOMAIN run.outputs.kv # {}
    /\ evaluator_chain.value.run_mapper.prediction_key
         \notin DOMAIN run.outputs.kv
    /\ feedback = Raised(ValueError("no prediction key"))

\* C23: the string evaluator is called at most once and only with what a
\* successful input preparation returned (and the callbacks): input and
\* prediction, and reference exactly when an example mapper is configured;
\* as long as no preparation has succeeded it has not been called; when an
\* example mapper is configured and no example is supplied, or the run has no
\* outputs, the call fails and the evaluator is never called.
C23_EvaluatorAfterPreparation ==
    /\ evaluator_calls # <<>>
         => /\ Len(evaluator_calls) = 1
            /\ eval_pc \in {"evaluating", "done", "failed"}
            /\ run_mapped.state = "returned"
            /\ IsDict(evaluate_strings_inputs)
            /\ DOMAIN evaluate_strings_inputs.kv
                 = {"input", "prediction"}
                   \cup (IF evaluator_chain.value.example_mapper.configured
                         THEN {"reference"} ELSE {})
            /\ DOMAIN evaluator_calls[1].kv
                 = DOMAIN evaluate_strings_inputs.kv \cup {"callbacks"}
            /\ \A k \in DOMAIN evaluate_strings_inputs.kv :
                 evaluator_calls[1].kv[k] = evaluate_strings_inputs.kv[k]
            /\ evaluate_strings_inputs.kv["input"]
                 = run_mapped.value.kv["input"]
            /\ evaluate_strings_inputs.kv["prediction"]
                 = run_mapped.value.kv["prediction"]
    /\ (/\ evaluator_chain.state = "returned"
        /\ \/ evaluator_chain.value.example_mapper.configured
              /\ ~example.supplied
           \/ run.outputs = None
           \/ DOMAIN run.outputs.kv = {})
       => /\ evaluator_calls = <<>>
          /\ eval_pc \in {"called", "failed"}
          /\ eval_pc = "failed" => feedback.state = "raised"
    /\ evaluate_strings_inputs = None => evaluator_calls = <<>>

\* C23's case: a chain with an example mapper was called with an example; the
\* evaluator was called with input, prediction and the example's reference.
C23_Witness ==
    /\ eval_pc = "done"
    /\ feedback.state = "returned"
    /\ "callbacks" \in DOMAIN evaluator_calls[1].kv
    /\ evaluator_chain.value.example_mapper.configured
    /\ Len(evaluator_calls) = 1
    /\ evaluator_calls[1].kv["reference"]
         = ValueAt("example.outputs",
                   evaluator_chain.value.example_mapper.reference_key)

=============================================================================
